---- MODULE Spec2Model ----
(***************************************************************************)
(* Heart Health Risk Checker (app.py): one execution of the script loads   *)
(* the pickled model, reads the form, converts the answers to the 13       *)
(* clinical features, and, when the form was submitted, queries the model  *)
(* and shows a risk label with its advice.                                 *)
(*                                                                         *)
(* Numbers: oldpeak is carried in tenths (the widget steps by 0.1 and the  *)
(* estimate is rounded to one decimal); the positive-class probability is  *)
(* carried as the number of the forest's NEstimators trees voting for the  *)
(* positive class, so 0.5 is NEstimators / 2 votes.                        *)
(***************************************************************************)
EXTENDS Integers, Sequences, FiniteSets, TLC

VARIABLES
    pc,          \* position of the current script run
    model,       \* "unloaded" | "loaded" | "failed": outcome of pickle.load in this run
    trace,       \* the steps this run has executed, in order
    resp,        \* the form's widget values (answers and optional clinical inputs)
    submitted,   \* value of st.form_submit_button in this run
    feat,        \* the script's derived variables sex, cp, trestbps .. thal
    X,           \* the row handed to model.predict_proba, <<>> while not built
    pred_prob,   \* positive-class votes out of NEstimators, -1 while not computed
    pred_label,  \* "" while not computed
    advice,      \* which advice branch was rendered, "" while none
    memo,        \* history: an earlier submission without clinical inputs
    observed     \* history: the ST-depression values of the rows built so far

vars ==
    <<pc, model, trace, resp, submitted, feat, X, pred_prob, pred_label, advice, memo,
      observed>>

----------------------------------------------------------------------------
(* Program constants *)

MinAge == 18
MaxAge == 100
DefaultAge == 45
SeniorAge == 60
NEstimators == 200

(* Bounds of the model: how many optional clinical inputs one submission   *)
(* of the process specification moves away from their defaults, and how    *)
(* many rows the ST-depression specification builds.                       *)
MaxOverrides == 1
MaxObserved == 3

----------------------------------------------------------------------------
(* Widget option lists, in the order the form gives them (index 0 first) *)

Genders == {"Male", "Female"}
SmokingOpts == {"Never", "Occasionally", "Daily"}
ExerciseOpts == {"Rarely", "1-2 days/week", "3-5 days/week", "Everyday"}
DietOpts == {"Poor", "Average", "Healthy"}
StressOpts == {"Low", "Moderate", "High"}
FamilyOpts == {"No", "Yes"}
WeightOpts == {"Underweight", "Normal", "Overweight", "Obese"}
SleepOpts == {"Poor", "Average", "Good"}

FbsOpts == {"Unknown", "No", "Yes"}
RestecgOpts == {"Unknown", "Normal", "ST-T wave abnormality", "Left ventricular hypertrophy"}
ExangOpts == {"Unknown", "No", "Yes"}
SlopeOpts == {"Unknown", "Upsloping", "Flat", "Downsloping"}
ThalOpts == {"Unknown", "Normal", "Fixed defect", "Reversible defect"}

(* Acquisition bounds of the numeric widgets: min_value .. max_value *)
TrestbpsRange == 0..300
CholRange == 0..800
ThalachRange == 0..230
OldpeakRange == 0..100
CaRange == 0..4

(* Values of the numeric widgets the model enumerates: for the age the     *)
(* slider's ends and both sides of the senior threshold, for the optional  *)
(* inputs the default, the least non-default value and the maximum.        *)
AgeSamples == {MinAge, SeniorAge - 1, SeniorAge, MaxAge}
TrestbpsSamples == {0, 1, 300}
CholSamples == {0, 1, 800}
ThalachSamples == {0, 1, 230}
OldpeakSamples == {0, 1, 100}

(* The widgets' values before the user touches the form *)
Defaults ==
    [age |-> DefaultAge, gender |-> "Male", smoking |-> "Never", exercise |-> "Rarely",
     diet |-> "Poor", stress |-> "Low", family_history |-> "No",
     weight |-> "Underweight", sleep |-> "Poor",
     trestbps_opt |-> 0, chol_opt |-> 0, fbs_opt |-> "Unknown",
     restecg_opt |-> "Unknown", thalach_opt |-> 0, exang_opt |-> "Unknown",
     oldpeak_opt |-> 0, slope_opt |-> "Unknown", ca_opt |-> 0, thal_opt |-> "Unknown"]

OptFields ==
    {"trestbps_opt", "chol_opt", "fbs_opt", "restecg_opt", "thalach_opt",
     "exang_opt", "oldpeak_opt", "slope_opt", "ca_opt", "thal_opt"}

OptValues(f) ==
    CASE f = "trestbps_opt" -> TrestbpsSamples
      [] f = "chol_opt" -> CholSamples
      [] f = "fbs_opt" -> FbsOpts
      [] f = "restecg_opt" -> RestecgOpts
      [] f = "thalach_opt" -> ThalachSamples
      [] f = "exang_opt" -> ExangOpts
      [] f = "oldpeak_opt" -> OldpeakSamples
      [] f = "slope_opt" -> SlopeOpts
      [] f = "ca_opt" -> CaRange
      [] f = "thal_opt" -> ThalOpts

(* The optional inputs of r that are away from their defaults *)
Overridden(r) == {f \in OptFields : r[f] # Defaults[f]}

(* r with every optional clinical input back at its default *)
NoOverrides(r) == [f \in DOMAIN r |-> IF f \in OptFields THEN Defaults[f] ELSE r[f]]

----------------------------------------------------------------------------
(* Friendly answers to scores: the dictionary lookups of the script *)

sex(gender) == IF gender = "Male" THEN 1 ELSE 0

smoke_score(smoking) ==
    (("Never" :> 0) @@ ("Occasionally" :> 1) @@ ("Daily" :> 2))[smoking]

exercise_score(exercise) ==
    (("Rarely" :> 0) @@ ("1-2 days/week" :> 1) @@ ("3-5 days/week" :> 2)
        @@ ("Everyday" :> 3))[exercise]

diet_score(diet) ==
    (("Poor" :> 0) @@ ("Average" :> 1) @@ ("Healthy" :> 2))[diet]

stress_score(stress) ==
    (("Low" :> 0) @@ ("Moderate" :> 1) @@ ("High" :> 2))[stress]

family_score(family_history) == IF family_history = "Yes" THEN 1 ELSE 0

weight_score(weight) ==
    (("Underweight" :> 0) @@ ("Normal" :> 1) @@ ("Overweight" :> 2)
        @@ ("Obese" :> 3))[weight]

sleep_score(sleep) ==
    (("Poor" :> 0) @@ ("Average" :> 1) @@ ("Good" :> 2))[sleep]

Max(a, b) == IF a >= b THEN a ELSE b
Min(a, b) == IF a <= b THEN a ELSE b

----------------------------------------------------------------------------
(* Default estimates. The script's functions read the scores as globals;   *)
(* here they are parameters. int() truncates a non-negative float, and     *)
(* (age - 18) * 0.2 and (age - 18) * 0.8 never fall below the exact        *)
(* fifths, so the truncations are the integer divisions written here.      *)

estimate_trestbps(age, stress, weight) ==
    110 + ((age - 18) \div 5) + stress * 8 + weight * 7

estimate_chol(age, smoke, diet) ==
    LET smoke_penalty == <<0, 15, 30>>[smoke + 1]
        diet_adjust == <<25, 10, -10>>[diet + 1]
    IN  160 + ((4 * (age - 18)) \div 5) + smoke_penalty + diet_adjust

(* max(90, min(200, base + bonus - 5 * stress)) without its lower clamp *)
estimate_thalach_unclamped(age, exercise, stress) ==
    LET base == 200 - age
        exercise_bonus == <<-10, -5, 0, 5>>[exercise + 1]
    IN  Min(200, base + exercise_bonus - stress * 5)

estimate_thalach(age, exercise, stress) ==
    LET base == 200 - age
        exercise_bonus == <<-10, -5, 0, 5>>[exercise + 1]
    IN  Max(90, Min(200, base + exercise_bonus - stress * 5))

(* estimate_oldpeak with the weight term starting one category later *)
estimate_oldpeak_late(stress, weight) ==
    2 + stress * 6 + Max(0, weight - 2) * 3

(* round(0.2 + 0.6 * stress + 0.3 * max(0, weight - 1), 1), in tenths *)
estimate_oldpeak(stress, weight) ==
    2 + stress * 6 + Max(0, weight - 1) * 3

(* derive_cp with its two rules in the other order *)
derive_cp_swapped(stress, exercise, smoke) ==
    IF stress = 2 /\ smoke = 2 THEN 1
    ELSE IF stress = 2 /\ exercise = 0 THEN 2
    ELSE 0

derive_cp(stress, exercise, smoke) ==
    IF stress = 2 /\ exercise = 0 THEN 2
    ELSE IF stress = 2 /\ smoke = 2 THEN 1
    ELSE 0

derive_fbs(age, diet, weight) ==
    IF diet = 0 /\ weight = 3 THEN 1
    ELSE IF age >= SeniorAge /\ diet = 0 THEN 1
    ELSE 0

derive_restecg == 0

derive_exang(exercise, stress) ==
    IF exercise = 0 /\ stress >= 1 THEN 1 ELSE 0

derive_slope(exercise, stress) ==
    IF exercise >= 2 /\ stress = 0 THEN 0
    ELSE IF stress = 2 THEN 2
    ELSE 1

derive_ca(age, smoke) ==
    IF age >= SeniorAge /\ smoke = 2 THEN 1 ELSE 0

derive_thal(family) == IF family = 1 THEN 2 ELSE 1

----------------------------------------------------------------------------
(* The optional medical inputs against the estimates. Every              *)
(* `'name' in locals()` test of the script is true: the form block binds   *)
(* each *_opt name at module level before these lines run.                 *)

S_stress(r) == stress_score(r.stress)
S_weight(r) == weight_score(r.weight)
S_smoke(r) == smoke_score(r.smoking)
S_exercise(r) == exercise_score(r.exercise)
S_diet(r) == diet_score(r.diet)
S_family(r) == family_score(r.family_history)

(* trestbps with the test written >= 0 instead of > 0 *)
trestbps_ge(r) ==
    IF r.trestbps_opt >= 0 THEN r.trestbps_opt
    ELSE estimate_trestbps(r.age, S_stress(r), S_weight(r))

trestbps(r) ==
    IF r.trestbps_opt > 0 THEN r.trestbps_opt
    ELSE estimate_trestbps(r.age, S_stress(r), S_weight(r))

(* chol with the presence test made on the neighbouring input *)
chol_by_trestbps(r) ==
    IF r.trestbps_opt > 0 THEN r.chol_opt
    ELSE estimate_chol(r.age, S_smoke(r), S_diet(r))

chol(r) ==
    IF r.chol_opt > 0 THEN r.chol_opt
    ELSE estimate_chol(r.age, S_smoke(r), S_diet(r))

fbs(r) ==
    (("Unknown" :> derive_fbs(r.age, S_diet(r), S_weight(r)))
        @@ ("No" :> 0) @@ ("Yes" :> 1))[r.fbs_opt]

restecg(r) ==
    (("Unknown" :> derive_restecg) @@ ("Normal" :> 0)
        @@ ("ST-T wave abnormality" :> 1)
        @@ ("Left ventricular hypertrophy" :> 2))[r.restecg_opt]

thalach(r) ==
    IF r.thalach_opt > 0 THEN r.thalach_opt
    ELSE estimate_thalach(r.age, S_exercise(r), S_stress(r))

exang(r) ==
    (("Unknown" :> derive_exang(S_exercise(r), S_stress(r)))
        @@ ("No" :> 0) @@ ("Yes" :> 1))[r.exang_opt]

oldpeak(r) ==
    IF r.oldpeak_opt > 0 THEN r.oldpeak_opt
    ELSE estimate_oldpeak(S_stress(r), S_weight(r))

slope(r) ==
    (("Unknown" :> derive_slope(S_exercise(r), S_stress(r)))
        @@ ("Upsloping" :> 0) @@ ("Flat" :> 1) @@ ("Downsloping" :> 2))[r.slope_opt]

(* ca_opt is always bound, so the slider's value is taken as it is and     *)
(* derive_ca() in the else branch is never evaluated.                      *)
ca(r) == r.ca_opt

thal(r) ==
    (("Unknown" :> derive_thal(S_family(r))) @@ ("Normal" :> 1)
        @@ ("Fixed defect" :> 2) @@ ("Reversible defect" :> 3))[r.thal_opt]

cp(r) == derive_cp(S_stress(r), S_exercise(r), S_smoke(r))

(* The script's variables after the conversion block *)
Features(r) ==
    [sex |-> sex(r.gender), cp |-> cp(r), trestbps |-> trestbps(r), chol |-> chol(r),
     fbs |-> fbs(r), restecg |-> restecg(r), thalach |-> thalach(r),
     exang |-> exang(r), oldpeak |-> oldpeak(r), slope |-> slope(r),
     ca |-> ca(r), thal |-> thal(r)]

(* The variables of a run that has not reached the conversion block *)
Unbound ==
    [sex |-> -1, cp |-> -1, trestbps |-> -1, chol |-> -1, fbs |-> -1, restecg |-> -1,
     thalach |-> -1, exang |-> -1, oldpeak |-> -1, slope |-> -1, ca |-> -1, thal |-> -1]

(* X = np.array([[age, sex, cp, ..., thal]]): the single row *)
Row(age, f) ==
    <<age, f.sex, f.cp, f.trestbps, f.chol, f.fbs, f.restecg, f.thalach,
      f.exang, f.oldpeak, f.slope, f.ca, f.thal>>

(* Position in the row of the field an optional input overrides *)
FieldIndex(f) ==
    CASE f = "trestbps_opt" -> 4
      [] f = "chol_opt" -> 5
      [] f = "fbs_opt" -> 6
      [] f = "restecg_opt" -> 7
      [] f = "thalach_opt" -> 8
      [] f = "exang_opt" -> 9
      [] f = "oldpeak_opt" -> 10
      [] f = "slope_opt" -> 11
      [] f = "ca_opt" -> 12
      [] f = "thal_opt" -> 13

----------------------------------------------------------------------------
(* Prediction *)

HighRisk == "High Risk"
LowRisk == "Low Risk"

(* the label with the threshold test written >= instead of > *)
pred_label_ge(p) == IF 2 * p >= NEstimators THEN HighRisk ELSE LowRisk

(* "High Risk" if pred_prob > 0.5 else "Low Risk" *)
pred_label_of(p) == IF 2 * p > NEstimators THEN HighRisk ELSE LowRisk

(* the advice branch: st.success for the low label, st.error + st.info otherwise *)
advice_of(label) == IF label = LowRisk THEN "success" ELSE "error"

----------------------------------------------------------------------------
(* Inputs the specifications enumerate *)

(* Every combination of the categorical answers, at the sampled ages *)
AllAnswers ==
    {[Defaults EXCEPT !.age = a, !.gender = g, !.smoking = sm, !.exercise = ex,
                      !.diet = d, !.stress = st, !.family_history = fh,
                      !.weight = w, !.sleep = sl] :
        a \in AgeSamples, g \in Genders, sm \in SmokingOpts, ex \in ExerciseOpts,
        d \in DietOpts, st \in StressOpts, fh \in FamilyOpts, w \in WeightOpts,
        sl \in SleepOpts}

(* The answers the process specification submits: the untouched form and   *)
(* its variations in age and smoking.                                      *)
ProcAnswers ==
    {[Defaults EXCEPT !.age = a, !.smoking = sm] :
        a \in {DefaultAge, SeniorAge}, sm \in {"Never", "Daily"}}

(* One reading per optional input for the process specification *)
Typical ==
    [trestbps_opt |-> 120, chol_opt |-> 240, fbs_opt |-> "Yes",
     restecg_opt |-> "ST-T wave abnormality", thalach_opt |-> 150, exang_opt |-> "Yes",
     oldpeak_opt |-> 14, slope_opt |-> "Flat", ca_opt |-> 2,
     thal_opt |-> "Reversible defect"]

RECURSIVE WithOverrides(_, _)
(* The records of S with at most k more optional inputs set to their       *)
(* typical reading                                                         *)
WithOverrides(S, k) ==
    IF k = 0 THEN S
    ELSE LET P == WithOverrides(S, k - 1)
         IN  P \cup {[r EXCEPT ![f] = Typical[f]] : r \in P, f \in OptFields}

ProcInputs == WithOverrides(ProcAnswers, MaxOverrides)

(* predict_proba(X)[0][1], as votes: both ends and around one half *)
ProbSamples ==
    {0, (NEstimators \div 2) - 1, NEstimators \div 2, (NEstimators \div 2) + 1, NEstimators}

NoMemo == [resp |-> Defaults, X |-> <<>>]

----------------------------------------------------------------------------
(* The script, run after run *)

Init ==
    /\ pc = "start"
    /\ model = "unloaded"
    /\ trace = <<>>
    /\ resp = Defaults
    /\ submitted = FALSE
    /\ feat = Unbound
    /\ X = <<>>
    /\ pred_prob = -1
    /\ pred_label = ""
    /\ advice = ""
    /\ memo = NoMemo
    /\ observed = <<>>

(* with open("model.pkl", "rb") as f: model = pickle.load(f) succeeds *)
LoadOk ==
    /\ pc = "start"
    /\ model' = "loaded"
    /\ trace' = Append(trace, "load")
    /\ pc' = "form"
    /\ UNCHANGED <<resp, submitted, feat, X, pred_prob, pred_label, advice, memo, observed>>

(* a failed load that lets the script go on to the form *)
LoadFailContinue ==
    /\ pc = "start"
    /\ model' = "failed"
    /\ trace' = Append(trace, "load")
    /\ pc' = "form"
    /\ UNCHANGED <<resp, submitted, feat, X, pred_prob, pred_label, advice, memo, observed>>

(* open or pickle.load raises: nothing catches it, the run ends there *)
LoadFail ==
    /\ pc = "start"
    /\ model' = "failed"
    /\ trace' = Append(trace, "load")
    /\ pc' = "aborted"
    /\ UNCHANGED <<resp, submitted, feat, X, pred_prob, pred_label, advice, memo, observed>>

(* the conversion with the vessel count taken from the widget state of the *)
(* run before                                                              *)
ReadFormStale(r, s) ==
    /\ pc = "form"
    /\ resp' = r
    /\ submitted' = s
    /\ feat' = [Features(r) EXCEPT !.ca = resp.ca_opt]
    /\ trace' = trace \o <<"form", "derive", "summary">>
    /\ pc' = "derived"
    /\ UNCHANGED <<model, X, pred_prob, pred_label, advice, memo, observed>>

(* The form returns the widget values r and the button state s; the        *)
(* conversion block binds every derived variable from them.                *)
ReadForm(r, s) ==
    /\ pc = "form"
    /\ resp' = r
    /\ submitted' = s
    /\ feat' = Features(r)
    /\ trace' = trace \o <<"form", "derive", "summary">>
    /\ pc' = "derived"
    /\ UNCHANGED <<model, X, pred_prob, pred_label, advice, memo, observed>>

(* the prediction block without its `if submitted` guard *)
PredictAlways(p, remember) ==
    /\ pc = "derived"
    /\ X' = Row(resp.age, feat)
    /\ pred_prob' = p
    /\ pred_label' = pred_label_of(p)
    /\ advice' = advice_of(pred_label')
    /\ memo' = IF remember /\ Overridden(resp) = {}
               THEN [resp |-> resp, X |-> X']
               ELSE memo
    /\ trace' = trace \o <<"query", "render">>
    /\ pc' = "done"
    /\ UNCHANGED <<model, resp, submitted, feat, observed>>

(* if submitted: build X, query the model (p votes), label, advice.        *)
(* remember: the history variable takes this submission when it has no     *)
(* clinical inputs.                                                        *)
Predict(p, remember) ==
    /\ pc = "derived"
    /\ submitted
    /\ X' = Row(resp.age, feat)
    /\ pred_prob' = p
    /\ pred_label' = pred_label_of(p)
    /\ advice' = advice_of(pred_label')
    /\ memo' = IF remember /\ Overridden(resp) = {}
               THEN [resp |-> resp, X |-> X']
               ELSE memo
    /\ trace' = trace \o <<"query", "render">>
    /\ pc' = "done"
    /\ UNCHANGED <<model, resp, submitted, feat, observed>>

(* the button was not clicked: the prediction block is skipped *)
NoSubmit ==
    /\ pc = "derived"
    /\ ~submitted
    /\ pc' = "done"
    /\ UNCHANGED <<model, trace, resp, submitted, feat, X, pred_prob, pred_label,
                   advice, memo, observed>>

(* The next interaction runs the script again from its first line, with    *)
(* none of its names bound; the widgets keep their values.                 *)
Rerun ==
    /\ pc \in {"done", "aborted"}
    /\ pc' = "start"
    /\ model' = "unloaded"
    /\ trace' = <<>>
    /\ submitted' = FALSE
    /\ feat' = Unbound
    /\ X' = <<>>
    /\ pred_prob' = -1
    /\ pred_label' = ""
    /\ advice' = ""
    /\ UNCHANGED <<resp, memo, observed>>

Next ==
    \/ LoadOk
    \/ LoadFail
    \/ \E r \in ProcInputs, s \in BOOLEAN : ReadForm(r, s)
    \/ \E p \in ProbSamples, remember \in BOOLEAN : Predict(p, remember)
    \/ NoSubmit
    \/ Rerun

Spec == Init /\ [][Next]_vars

----------------------------------------------------------------------------
(* The conversion as a function of the form: every combination of answers, *)
(* first with no clinical input, then with exactly one set.                *)

InitDerive ==
    /\ pc = "base"
    /\ model = "loaded"
    /\ trace = <<"load">>
    /\ resp \in AllAnswers
    /\ submitted = TRUE
    /\ feat = Unbound
    /\ X = <<>>
    /\ pred_prob = -1
    /\ pred_label = ""
    /\ advice = ""
    /\ memo = NoMemo
    /\ observed = <<>>

(* conversion block and X for the answers alone *)
DeriveBase ==
    /\ pc = "base"
    /\ feat' = Features(resp)
    /\ X' = Row(resp.age, feat')
    /\ memo' = [resp |-> resp, X |-> X']
    /\ pc' = "based"
    /\ UNCHANGED <<model, trace, resp, submitted, pred_prob, pred_label, advice, observed>>

(* the same answers submitted with the optional input f set to v *)
DeriveOverride(f, v) ==
    /\ pc = "based"
    /\ v # Defaults[f]
    /\ resp' = [resp EXCEPT ![f] = v]
    /\ feat' = Features(resp')
    /\ X' = Row(resp'.age, feat')
    /\ pc' = "overridden"
    /\ UNCHANGED <<model, trace, submitted, pred_prob, pred_label, advice, memo, observed>>

NextDerive ==
    \/ DeriveBase
    \/ \E f \in OptFields : \E v \in OptValues(f) : DeriveOverride(f, v)

SpecDerive == InitDerive /\ [][NextDerive]_vars

----------------------------------------------------------------------------
(* estimate_thalach over every age the slider allows *)

InitThalach ==
    /\ pc = "estimate"
    /\ model = "loaded"
    /\ trace = <<"load">>
    /\ resp \in {[Defaults EXCEPT !.age = a, !.exercise = ex, !.stress = st] :
                    a \in MinAge..MaxAge, ex \in ExerciseOpts, st \in StressOpts}
    /\ submitted = FALSE
    /\ feat = Unbound
    /\ X = <<>>
    /\ pred_prob = -1
    /\ pred_label = ""
    /\ advice = ""
    /\ memo = NoMemo
    /\ observed = <<>>

EstimateThalach ==
    /\ pc = "estimate"
    /\ feat' = [feat EXCEPT
                  !.thalach = estimate_thalach(resp.age, S_exercise(resp), S_stress(resp))]
    /\ pc' = "estimated"
    /\ UNCHANGED <<model, trace, resp, submitted, X, pred_prob, pred_label, advice, memo,
                   observed>>

NextThalach == EstimateThalach

SpecThalach == InitThalach /\ [][NextThalach]_vars

----------------------------------------------------------------------------
(* The ST-depression field over the stress and weight answers: up to       *)
(* MaxObserved rows are built, each for a chosen stress and weight answer  *)
(* and with the direct input either absent or set, and their ST-depression *)
(* fields are kept.                                                        *)

InitOldpeak ==
    /\ pc = "form"
    /\ model = "loaded"
    /\ trace = <<"load">>
    /\ resp = Defaults
    /\ submitted = TRUE
    /\ feat = Unbound
    /\ X = <<>>
    /\ pred_prob = -1
    /\ pred_label = ""
    /\ advice = ""
    /\ memo = NoMemo
    /\ observed = <<>>

ObserveOldpeak(st, w, op) ==
    /\ Len(observed) < MaxObserved
    /\ resp' = [Defaults EXCEPT !.stress = st, !.weight = w, !.oldpeak_opt = op]
    /\ feat' = Features(resp')
    /\ X' = Row(resp'.age, feat')
    /\ observed' = Append(observed,
                          [stress |-> S_stress(resp'), weight |-> S_weight(resp'),
                           direct |-> op, oldpeak |-> X'[10]])
    /\ UNCHANGED <<pc, model, trace, submitted, pred_prob, pred_label, advice, memo>>

NextOldpeak ==
    \E st \in StressOpts, w \in WeightOpts, op \in {0, 14} : ObserveOldpeak(st, w, op)

SpecOldpeak == InitOldpeak /\ [][NextOldpeak]_vars

----------------------------------------------------------------------------
(* Properties *)

(* What the estimation/derivation functions give for the answers r, by the *)
(* position of the field in the row                                        *)
DerivedAt(r, f) ==
    CASE f = "trestbps_opt" -> estimate_trestbps(r.age, S_stress(r), S_weight(r))
      [] f = "chol_opt" -> estimate_chol(r.age, S_smoke(r), S_diet(r))
      [] f = "fbs_opt" -> derive_fbs(r.age, S_diet(r), S_weight(r))
      [] f = "restecg_opt" -> derive_restecg
      [] f = "thalach_opt" -> estimate_thalach(r.age, S_exercise(r), S_stress(r))
      [] f = "exang_opt" -> derive_exang(S_exercise(r), S_stress(r))
      [] f = "oldpeak_opt" -> estimate_oldpeak(S_stress(r), S_weight(r))
      [] f = "slope_opt" -> derive_slope(S_exercise(r), S_stress(r))
      [] f = "ca_opt" -> derive_ca(r.age, S_smoke(r))
      [] f = "thal_opt" -> derive_thal(S_family(r))

(* C1: every clinical field whose direct input is at its default (0 or     *)
(* "Unknown") holds, in the row, the value of its estimation/derivation    *)
(* function of the answers; vessel count included.                         *)
C1_DefaultInputUsesDerivation ==
    X # <<>> =>
        \A f \in OptFields :
            resp[f] = Defaults[f] => X[FieldIndex(f)] = DerivedAt(resp, f)

(* C1, the nine fields other than the vessel count: the same statement     *)
(* with ca left out.                                                       *)
C1_DefaultInputUsesDerivationButCa ==
    X # <<>> =>
        \A f \in OptFields \ {"ca_opt"} :
            resp[f] = Defaults[f] => X[FieldIndex(f)] = DerivedAt(resp, f)

(* C2: the row built with exactly one direct clinical input set differs    *)
(* from the row built for the same answers with none set in at most that   *)
(* one field; the other 12 fields are identical.                           *)
C2_OverrideChangesOnlyItsField ==
    (pc = "overridden") =>
        /\ memo.resp = NoOverrides(resp)
        /\ Len(X) = 13 /\ Len(memo.X) = 13
        /\ \A f \in OptFields :
              Overridden(resp) = {f} =>
                  \A i \in (1..13) \ {FieldIndex(f)} : X[i] = memo.X[i]

C2_Witness ==
    /\ pc = "overridden"
    /\ Overridden(resp) = {"trestbps_opt"}
    /\ resp.trestbps_opt = 300
    /\ X[4] = 300
    /\ memo.X[4] # 300
    /\ X[5] = memo.X[5]

(* C3: the label is the high-risk label exactly when the positive-class    *)
(* probability is strictly above one half; exactly one half and anything   *)
(* lower give the low-risk label; the advice branch agrees with the label. *)
C3_HighIffAboveHalf ==
    (pc = "done" /\ submitted) =>
        /\ pred_prob \in 0..NEstimators
        /\ pred_label \in {HighRisk, LowRisk}
        /\ (pred_label = HighRisk) <=> (2 * pred_prob > NEstimators)
        /\ (2 * pred_prob <= NEstimators) => (pred_label = LowRisk)
        /\ (advice = "success") <=> (pred_label = LowRisk)
        /\ (advice = "error") <=> (pred_label = HighRisk)

C3_Witness ==
    /\ pc = "done"
    /\ submitted
    /\ 2 * pred_prob = NEstimators
    /\ pred_label = LowRisk
    /\ advice = "success"

(* C4: estimate_thalach is an integer in [90, 200] for every age in        *)
(* 18..100, every exercise answer and every stress answer.                 *)
C4_ThalachInRange ==
    (pc = "estimated") => feat.thalach \in 90..200

C4_Witness ==
    /\ pc = "estimated"
    /\ resp.age = MaxAge
    /\ resp.exercise = "Rarely"
    /\ resp.stress = "High"
    /\ feat.thalach = 90

(* C5: in a run whose model load failed the script stops at the load: the  *)
(* load was tried once, no form was read, no derived variable is bound, no *)
(* row is built, the model is not queried and no label or advice exists.   *)
C5_LoadFailureAborts ==
    (model = "failed") =>
        /\ pc = "aborted"
        /\ trace = <<"load">>
        /\ submitted = FALSE
        /\ feat = Unbound
        /\ X = <<>>
        /\ pred_prob = -1
        /\ pred_label = ""
        /\ advice = ""

(* a failed run that follows a run which produced a result *)
C5_Witness ==
    /\ model = "failed"
    /\ pc = "aborted"
    /\ memo.X # <<>>

C7_RowInSchema ==
    X # <<>> =>
        /\ Len(X) = 13
        /\ X = <<resp.age, feat.sex, feat.cp, feat.trestbps, feat.chol, feat.fbs,
                 feat.restecg, feat.thalach, feat.exang, feat.oldpeak, feat.slope,
                 feat.ca, feat.thal>>
        /\ X[1] \in MinAge..MaxAge
        /\ X[2] \in {0, 1}
        /\ X[3] \in {0, 1, 2}
        /\ X[4] \in 1..300
        /\ X[5] \in 1..800
        /\ X[6] \in {0, 1}
        /\ X[7] \in {0, 1, 2}
        /\ X[8] \in 1..230
        /\ X[9] \in {0, 1}
        /\ X[10] \in OldpeakRange
        /\ X[11] \in {0, 1, 2}
        /\ X[12] \in 0..4
        /\ X[13] \in {1, 2, 3}

C7_Witness ==
    /\ pc = "overridden"
    /\ resp.age = MaxAge
    /\ resp.chol_opt = 800
    /\ X[5] = 800
    /\ X[4] = estimate_trestbps(MaxAge, S_stress(resp), S_weight(resp))
    /\ X[12] = 0

(* the chest-pain rules, read off the answers *)
ChestPainOf(r) ==
    IF r.stress = "High" /\ r.exercise = "Rarely" THEN 2
    ELSE IF r.stress = "High" /\ r.smoking = "Daily" THEN 1
    ELSE 0

(* C8: the row's chest-pain type is 2 when stress is High and exercise is  *)
(* Rarely (also when smoking is Daily), otherwise 1 when stress is High    *)
(* and smoking is Daily, otherwise 0; a direct clinical input leaves it as *)
(* it was for the answers alone.                                           *)
C8_ChestPainByPriority ==
    X # <<>> =>
        /\ X[3] = ChestPainOf(resp)
        /\ (pc = "overridden") => X[3] = memo.X[3]

C8_Witness ==
    /\ pc = "overridden"
    /\ resp.stress = "High"
    /\ resp.exercise = "Rarely"
    /\ resp.smoking = "Daily"
    /\ resp.thal_opt = "Reversible defect"
    /\ X[3] = 2

(* the observations made without a direct ST-depression input *)
Estimated == {observed[i] : i \in {j \in 1..Len(observed) : observed[j].direct = 0}}

WeightStep(a, b) == a.stress = b.stress /\ b.weight = a.weight + 1
StressStep(a, b) == a.weight = b.weight /\ b.stress = a.stress + 1

(* C9: without a direct input the ST-depression field, in tenths, changes  *)
(* by the same amount at every one-step increase of the weight rank at a   *)
(* fixed stress rank, and by the same amount at every one-step increase of *)
(* the stress rank at a fixed weight rank.                                 *)
C9_LinearInRanks ==
    \A a, b, c, d \in Estimated :
        /\ (WeightStep(a, b) /\ WeightStep(c, d) /\ a.stress = c.stress)
              => b.oldpeak - a.oldpeak = d.oldpeak - c.oldpeak
        /\ (StressStep(a, b) /\ StressStep(c, d) /\ a.weight = c.weight)
              => b.oldpeak - a.oldpeak = d.oldpeak - c.oldpeak

(* C9 as amended: the stress steps are as claimed; the weight steps from   *)
(* Normal upward change the field by the same amount, and the step from    *)
(* Underweight to Normal leaves it unchanged.                              *)
C9_LinearAboveNormalWeight ==
    \A a, b, c, d \in Estimated :
        /\ (WeightStep(a, b) /\ WeightStep(c, d) /\ a.stress = c.stress
                /\ a.weight >= 1 /\ c.weight >= 1)
              => b.oldpeak - a.oldpeak = d.oldpeak - c.oldpeak
        /\ (WeightStep(a, b) /\ a.weight = 0) => b.oldpeak = a.oldpeak
        /\ (StressStep(a, b) /\ StressStep(c, d) /\ a.weight = c.weight)
              => b.oldpeak - a.oldpeak = d.oldpeak - c.oldpeak

(* Underweight, Normal, Overweight at low stress: 0.2, 0.2, 0.5 *)
C9_Witness ==
    /\ Len(observed) = 3
    /\ observed[1] = [stress |-> 0, weight |-> 0, direct |-> 0, oldpeak |-> 2]
    /\ observed[2] = [stress |-> 0, weight |-> 1, direct |-> 0, oldpeak |-> 2]
    /\ observed[3] = [stress |-> 0, weight |-> 2, direct |-> 0, oldpeak |-> 5]

IsPrefix(t, u) == Len(t) <= Len(u) /\ \A i \in 1..Len(t) : t[i] = u[i]

Pipeline == <<"load", "form", "derive", "summary", "query", "render">>

(* C10: with the model loaded, a run's steps are an initial part of load,  *)
(* form, derive, summary, query, render, each at most once and in that     *)
(* order; the query and the rendered label occur only in a run whose form  *)
(* was submitted; a finished run without submission has derived the        *)
(* features and rendered the summary and has no row, query or label; a     *)
(* finished submitted run has made exactly one query and rendered.         *)
C10_QueryOnlyWhenSubmitted ==
    (model = "loaded") =>
        /\ IsPrefix(trace, Pipeline)
        /\ (\E i \in 1..Len(trace) : trace[i] \in {"query", "render"}) => submitted
        /\ (X # <<>> \/ pred_prob # -1 \/ pred_label # "" \/ advice # "") => submitted
        /\ (pc = "done" /\ ~submitted) =>
              /\ trace = SubSeq(Pipeline, 1, 4)
              /\ feat = Features(resp)
              /\ X = <<>> /\ pred_prob = -1 /\ pred_label = "" /\ advice = ""
        /\ (pc = "done" /\ submitted) =>
              /\ trace = Pipeline
              /\ X = Row(resp.age, feat)
              /\ pred_prob \in ProbSamples
              /\ pred_label # ""

(* a run without submission that finished after an earlier submitted run *)
C10_Witness ==
    /\ model = "loaded"
    /\ pc = "done"
    /\ ~submitted
    /\ trace = SubSeq(Pipeline, 1, 4)
    /\ memo.X # <<>>
    /\ pred_label = ""

====
